---------------------------- MODULE Spec2Model ----------------------------
(***************************************************************************)
(* Model of ironfish-cli/src/commands/service/snapshot.ts: CreateSnapshot. *)
(* start() pulls a block stream from a node, writes one file per block,    *)
(* archives the blocks directory with tar, hashes the archive and, when a  *)
(* bucket is configured, uploads the archive and a manifest with curl.     *)
(*                                                                         *)
(* Strings are sequences of tokens (TLA+ strings); the token " " is white  *)
(* space.  A path is a record [dir, base].  File contents are sequences of *)
(* bytes.  Every await of start() is a step of its own: the program        *)
(* counter pc names the await the method is suspended at.                  *)
(***************************************************************************)
EXTENDS Integers, Sequences, FiniteSets, TLC

(***************************************************************************)
(* Bounds of the model.                                                    *)
(***************************************************************************)
\* Number of data messages the node sends after the bounds message.
MaxMsgs == 2
\* Largest block sequence number on the stream.
MaxSeq == 2

(***************************************************************************)
(* JavaScript values.                                                      *)
(***************************************************************************)
\* The JavaScript value undefined (an absent flag, variable or field).
Undefined == <<"undefined">>

\* String.prototype.trim: strips leading and trailing white space.
RECURSIVE TrimLeft(_)
TrimLeft(s) ==
  IF s # <<>> /\ Head(s) = " " THEN TrimLeft(Tail(s)) ELSE s

RECURSIVE TrimRight(_)
TrimRight(s) ==
  IF s # <<>> /\ s[Len(s)] = " " THEN TrimRight(SubSeq(s, 1, Len(s) - 1)) ELSE s

Trim(s) == TrimRight(TrimLeft(s))

\* Truthiness of a string or undefined: '' and undefined are falsy.
TruthyStr(s) == s # Undefined /\ s # <<>>

\* a || b on strings.
JsOr(a, b) == IF TruthyStr(a) THEN a ELSE b

\* The flag parsers of lines 24 and 30: a given flag is trimmed, an absent
\* one stays undefined.
ParseFlag(raw) == IF raw = Undefined THEN Undefined ELSE Trim(raw)

\* Line 47 without the final trim().
BucketUntrimmed(flagRaw, env) == JsOr(JsOr(ParseFlag(flagRaw), env), <<>>)

\* Line 47: (flags.bucket || process.env.IRONFISH_SNAPSHOT_BUCKET || '').trim()
BucketOf(flagRaw, env) == Trim(JsOr(JsOr(ParseFlag(flagRaw), env), <<>>))

\* Values the --bucket flag and the environment variable are drawn from.
RawStrings == {Undefined, <<>>, <<" ">>, <<" ", "b", " ">>}

\* Values the --path flag is drawn from.
RawPaths == {Undefined, <<" ">>, <<"out", " ">>}

(***************************************************************************)
(* Paths.                                                                  *)
(***************************************************************************)
\* fileSystem.join(dir, name) / path.join(dir, name)
Join(dir, name) == [dir |-> dir, base |-> name]
\* path.dirname and path.basename
Dirname(p) == p.dir
Basename(p) == p.base
\* fileSystem.resolve(path): the path made absolute.
Resolve(p) == <<"cwd">> \o p
\* The directory mkdtemp creates under os.tmpdir().
TmpDir == <<"tmp", "XXXXXX">>

(***************************************************************************)
(* The block stream.                                                       *)
(***************************************************************************)
\* A payload: absent, or bytes (possibly none).
Payloads == {Undefined, <<>>, <<"A", "B">>}
\* result.seq: absent (-1 stands for undefined), 0, or a sequence number.
NoSeq == 0 - 1
Seqs == {NoSeq} \cup (0 .. MaxSeq)
\* The bounds (start, stop) the first message carries.
Bounds == {b \in (1 .. MaxSeq) \X (1 .. MaxSeq) : b[1] <= b[2]}

\* Line 84: result.buffer && result.seq.  A buffer is an object, truthy
\* whatever its length; undefined is falsy; a number is truthy unless 0.
TruthyBuffer(b) == b # Undefined
TruthySeq(n) == n # NoSeq /\ n # 0
ShouldWrite(m) == TruthyBuffer(m.buffer) /\ TruthySeq(m.seq)

\* A record with a nonzero sequence number and a payload of at least one
\* byte.
NonEmptyRecord(m) ==
  /\ m.seq # NoSeq /\ m.seq # 0
  /\ m.buffer # Undefined /\ m.buffer # <<>>

(***************************************************************************)
(* Archive, digest and manifest.                                           *)
(***************************************************************************)
\* Values of Date.now() (line 93).
Times == {1000, 2000}
\* `${timestamp}` in the template literal of line 95.
NumStr(n) == IF n = 1000 THEN "1000" ELSE IF n = 2000 THEN "2000" ELSE "NaN"
\* Line 95: `ironfish_snapshot_${timestamp}.tar.gz`
SnapshotFileName(t) == <<"ironfish_snapshot_", NumStr(t), ".tar.gz">>

\* Byte strings tar may leave at the destination.
ArchiveBytes == {<<1>>, <<1, 2>>, <<2, 1>>}
NoFile == [exists |-> FALSE, data |-> <<>>]
File(data) == [exists |-> TRUE, data |-> data]

\* crypto.createHash('sha256'), update and digest (lines 105-113).  SHA-256
\* is stood in for by a polynomial hash over the bytes, folded chunk by
\* chunk as hasher.update does.  NoHash: no hash object exists yet.
NoHash == 0 - 1
HashInit == 7
HashMod == 251
RECURSIVE HashUpdate(_, _)
HashUpdate(h, chunk) ==
  IF chunk = <<>> THEN h
  ELSE HashUpdate((h * 31 + Head(chunk)) % HashMod, Tail(chunk))
\* The digest of a whole byte string, hashed in one piece.
Sha256(data) == HashUpdate(HashInit, data)
\* Buffer.toString('hex') of the one-byte digest: two hex digits.
HexDigit(d) == <<"0", "1", "2", "3", "4", "5", "6", "7", "8", "9",
                 "a", "b", "c", "d", "e", "f">>[d + 1]
Hex(n) == <<HexDigit(n \div 16), HexDigit(n % 16)>>

\* JSON.stringify of the manifest object (lines 128-134): the members in
\* the order the object literal lists them.
ManifestJson(blockHeight, sum, fileName, size, t) ==
  << <<"block_height", blockHeight>>, <<"checksum", sum>>,
     <<"file_name", fileName>>, <<"file_size", size>>, <<"timestamp", t>> >>
\* The value of member key in a JSON text.
JsonGet(json, key) ==
  LET i == CHOOSE k \in 1 .. Len(json) : json[k][1] = key IN json[i][2]

(***************************************************************************)
(* External processes.                                                     *)
(***************************************************************************)
\* The loop of lines 151-154 with its two unshift calls in the other order:
\* each pattern ends up in front of its flag.
RECURSIVE UnshiftFlagFirst(_, _)
UnshiftFlagFirst(args, excludes) ==
  IF excludes = <<>> THEN args
  ELSE UnshiftFlagFirst(<<Head(excludes), "--exclude">> \o args, Tail(excludes))

\* zipDir's argument list (lines 146-154).
RECURSIVE UnshiftExcludes(_, _)
UnshiftExcludes(args, excludes) ==
  IF excludes = <<>> THEN args
  ELSE UnshiftExcludes(<<"--exclude", Head(excludes)>> \o args, Tail(excludes))

ZipArgs(source, dest, excludes) ==
  UnshiftExcludes(<<"-zcf", dest, "-C", Dirname(source), Basename(source)>>,
                  excludes)

\* uploadToBucket's argument list (lines 165-185); the Date header's value
\* is the wall clock and is left as a token.
UploadArgs(dest, host, contentType) ==
  <<"-X", "PUT", "-T", dest,
    "-H", <<"Host: ", host>>,
    "-H", <<"Date: ", "now">>,
    "-H", <<"Content-Type: ", contentType>>,
    "-H", <<"x-amz-acl: ", "bucket-owner-full-control">>,
    <<"https://", host, "/", Basename(dest)>> >>

\* A spawned child process.
NoCode == 0 - 1
Spawn(cmd, args, file) ==
  [cmd |-> cmd, args |-> args, file |-> file, state |-> "running", code |-> NoCode]
\* Exit codes a child may end with.
ExitCodes == {0, 1}

(***************************************************************************)
(* State.                                                                  *)
(***************************************************************************)
VARIABLES
  pc,             \* the await start() is suspended at; "done" and "failed" end it
  failedAt,       \* the stage whose failure ended start(), or "none"
  bucket,         \* line 47
  exportDir,      \* lines 49-61
  blocksDir,      \* whether exportDir/blocks exists
  blocks,         \* content of each file exportDir/blocks/<seq>, Undefined if none
  archive,        \* the file at snapshotPath
  manifest,       \* the file exportDir/manifest.json
  channel,        \* messages the node has sent that no reader has taken yet
  streamState,    \* "idle", "open", "closed" (ended) or "error"
  nSent,          \* number of messages the node has sent
  opens,          \* number of snapshotChainStream requests made
  start,          \* line 74
  stop,           \* line 74
  progress,       \* the progress bar: [total, value, active]
  result,         \* the record the loop body is writing (line 83)
  boundsRead,     \* ids of the messages AsyncUtils.first took
  processed,      \* ids of the messages the loop of line 83 took, in order
  delivered,      \* sequence numbers of the records the loop of line 83 took
                  \* that carry a nonzero sequence and a non-empty payload
  stopSeen,       \* whether the loop has taken a record whose sequence is stop
  timestamp,      \* line 93
  fileSize,       \* line 102
  hasher,         \* line 105: the running hash
  hashPos,        \* bytes of the archive the read stream has delivered
  checksum,       \* line 113
  procs,          \* every child process spawned, in order
  remote,         \* base names of the objects the bucket has received
  written,        \* the writes that completed: of line 86, the payload last
                  \* written under each sequence and the last sequence; of
                  \* line 126, whether the manifest was written
  zipCall         \* a call of zipDir: its arguments and the list given to tar

\* The state of a run of start(), and the whole state.
startVars == <<pc, failedAt, bucket, exportDir, blocksDir, blocks, archive,
               manifest, channel, streamState, nSent, opens, start, stop,
               progress, result, boundsRead, processed, delivered, stopSeen,
               timestamp, fileSize, hasher, hashPos, checksum, procs, remote,
               written>>
vars == <<startVars, zipCall>>

fsVars == <<blocksDir, blocks, archive, manifest>>
streamVars == <<channel, streamState, nSent>>
readVars == <<start, stop, progress, result, boundsRead, processed, delivered,
              stopSeen, written>>
digestVars == <<timestamp, fileSize, hasher, hashPos, checksum>>

\* Names of the files the blocks directory may hold.
FileNames == 1 .. MaxSeq
NoBlocks == [n \in FileNames |-> Undefined]
\* Content a caller-supplied directory may already hold under blocks/.
EarlierBlocks == {NoBlocks, [NoBlocks EXCEPT ![1] = <<"B">>]}
\* What a caller-supplied directory may already hold as manifest.json: the
\* name is the same in every run.
EarlierManifests == {NoFile, File(<<<<"old", 0>>>>)}
\* No write has completed; no call of zipDir is under examination.
NoWrites == [payload |-> NoBlocks, last |-> 0, manifest |-> FALSE]
NoCall == [source |-> Undefined, dest |-> Undefined, excludes |-> <<>>,
           args |-> <<>>]
NoResult == [id |-> 0, start |-> 0, stop |-> 0, seq |-> NoSeq, buffer |-> Undefined]

\* Paths of lines 63, 96 and 123.
blockExportPath == Join(exportDir, <<"blocks">>)
snapshotFileName == SnapshotFileName(timestamp)
snapshotPath == Join(exportDir, snapshotFileName)
manifestPath == Join(exportDir, <<"manifest.json">>)

\* start() has been entered and nothing has run yet.
StartInit ==
  /\ pc = "parse"
  /\ failedAt = "none"
  /\ bucket = <<>>
  /\ exportDir = Undefined
  /\ blocksDir = FALSE
  /\ blocks = NoBlocks
  /\ archive = NoFile
  /\ manifest = NoFile
  /\ channel = <<>>
  /\ streamState = "idle"
  /\ nSent = 0
  /\ opens = 0
  /\ start = 0
  /\ stop = 0
  /\ progress = [total |-> 0, value |-> 0, active |-> FALSE]
  /\ result = NoResult
  /\ boundsRead = <<>>
  /\ processed = <<>>
  /\ delivered = {}
  /\ stopSeen = FALSE
  /\ timestamp = 0
  /\ fileSize = 0
  /\ hasher = NoHash
  /\ hashPos = 0
  /\ checksum = <<>>
  /\ procs = <<>>
  /\ remote = {}
  /\ written = NoWrites

Init == StartInit /\ zipCall = NoCall

\* A rejected await or a thrown error: start() ends in failure at stage.
Fail(stage) ==
  /\ pc' = "failed"
  /\ failedAt' = stage

(***************************************************************************)
(* start(): directory preparation (lines 45-64).                           *)
(***************************************************************************)
\* Lines 45-52: the flags are parsed, the bucket is computed, and a given
\* path is resolved; without one mkdtemp is awaited.  A given directory may
\* hold block files and a manifest.json of an earlier run (an earlier
\* archive has another name: the name carries the time of its run).
ParseFlags ==
  /\ pc = "parse"
  /\ \E flagBucket \in RawStrings, envBucket \in RawStrings, flagPath \in RawPaths :
       /\ bucket' = BucketOf(flagBucket, envBucket)
       /\ IF TruthyStr(ParseFlag(flagPath))
            THEN /\ exportDir' = Resolve(ParseFlag(flagPath))
                 /\ \E earlier \in EarlierBlocks, there \in BOOLEAN :
                      /\ blocks' = earlier
                      /\ blocksDir' = (there \/ earlier # NoBlocks)
                 /\ \E old \in EarlierManifests : manifest' = old
                 /\ pc' = "mkdir"
            ELSE /\ UNCHANGED <<exportDir, blocks, blocksDir, manifest>>
                 /\ pc' = "mkdtemp"
  /\ UNCHANGED <<zipCall, failedAt, archive, streamVars, opens, readVars,
                 digestVars, procs, remote>>

\* Lines 53-61 with the failure of mkdtemp only logged: start() goes on to
\* mkdir without a working directory.
MkdtempLogsOnly ==
  /\ pc = "mkdtemp"
  /\ \/ exportDir' = TmpDir
     \/ UNCHANGED exportDir
  /\ pc' = "mkdir"
  /\ UNCHANGED <<zipCall, failedAt, bucket, fsVars, streamVars, opens, readVars,
                 digestVars, procs, remote>>

\* Lines 55-59: mkdtemp creates a fresh directory, or fails and the command
\* exits with status 1.
Mkdtemp ==
  /\ pc = "mkdtemp"
  /\ \/ /\ exportDir' = TmpDir
        /\ pc' = "mkdir"
        /\ UNCHANGED failedAt
     \/ /\ Fail("PREPARE_DIR")
        /\ UNCHANGED exportDir
  /\ UNCHANGED <<zipCall, bucket, fsVars, streamVars, opens, readVars, digestVars,
                 procs, remote>>

\* Lines 61-66: mkdir -p of the blocks directory; what it holds stays.
Mkdir ==
  /\ pc = "mkdir"
  /\ \/ /\ blocksDir' = TRUE
        /\ pc' = "connect"
        /\ UNCHANGED failedAt
     \/ /\ Fail("PREPARE_DIR")
        /\ UNCHANGED blocksDir
  /\ UNCHANGED <<zipCall, bucket, exportDir, blocks, archive, manifest, streamVars,
                 opens, readVars, digestVars, procs, remote>>

(***************************************************************************)
(* The node's side of the stream.  The response of snapshotChainStream is  *)
(* one ordered channel: the node writes to it, contentStream() iterators   *)
(* take from its head.                                                     *)
(***************************************************************************)
\* The node sends its next message: the bounds first, then block records.
SourceEmit ==
  /\ streamState = "open"
  /\ pc \in {"first", "loop", "write"}
  /\ nSent < MaxMsgs + 1
  /\ nSent' = nSent + 1
  /\ IF nSent = 0
       THEN \E b \in Bounds :
              channel' = Append(channel, [id |-> 1, start |-> b[1], stop |-> b[2],
                                          seq |-> NoSeq, buffer |-> Undefined])
       ELSE \E n \in Seqs, payload \in Payloads :
              channel' = Append(channel, [id |-> nSent + 1, start |-> 0, stop |-> 0,
                                          seq |-> n, buffer |-> payload])
  /\ UNCHANGED <<zipCall, pc, failedAt, bucket, exportDir, fsVars, streamState, opens,
                 readVars, digestVars, procs, remote>>

\* The stream ends: the node is finished, or the connection closed.
SourceClose ==
  /\ streamState = "open"
  /\ pc \in {"first", "loop", "write"}
  /\ streamState' = "closed"
  /\ UNCHANGED <<zipCall, pc, failedAt, bucket, exportDir, fsVars, channel, nSent, opens,
                 readVars, digestVars, procs, remote>>

\* The stream fails with an error.
SourceError ==
  /\ streamState = "open"
  /\ pc \in {"first", "loop", "write"}
  /\ streamState' = "error"
  /\ UNCHANGED <<zipCall, pc, failedAt, bucket, exportDir, fsVars, channel, nSent, opens,
                 readVars, digestVars, procs, remote>>

(***************************************************************************)
(* start(): streaming (lines 66-91).                                       *)
(***************************************************************************)
\* Lines 66-72: connectRpc, then the one snapshotChainStream request.
ConnectRpc ==
  /\ pc = "connect"
  /\ \/ /\ opens' = opens + 1
        /\ streamState' = "open"
        /\ pc' = "first"
        /\ UNCHANGED failedAt
     \/ /\ Fail("CONNECT")
        /\ UNCHANGED <<opens, streamState>>
  /\ UNCHANGED <<zipCall, bucket, exportDir, fsVars, channel, nSent, readVars,
                 digestVars, procs, remote>>

\* Lines 74-81 with the bounds message left at the head of the channel, so
\* that the loop's iterator starts over from it.
ReadBoundsReplayed ==
  /\ pc = "first"
  /\ \/ /\ channel # <<>>
        /\ LET m == Head(channel) IN
             /\ start' = m.start
             /\ stop' = m.stop
             /\ progress' = [total |-> m.stop - m.start + 1, value |-> 0,
                             active |-> TRUE]
             /\ boundsRead' = Append(boundsRead, m.id)
        /\ pc' = "loop"
        /\ UNCHANGED <<failedAt, channel>>
     \/ /\ channel = <<>>
        /\ streamState \in {"closed", "error"}
        /\ Fail("STREAM_BLOCKS")
        /\ UNCHANGED <<start, stop, progress, boundsRead, channel>>
  /\ UNCHANGED <<zipCall, bucket, exportDir, fsVars, streamState, nSent, opens, result,
                 processed, delivered, stopSeen, written, digestVars, procs,
                 remote>>

\* Lines 74-81: AsyncUtils.first(response.contentStream()) takes one message
\* and leaves the channel open; progress.start(stop - start + 1, 0).
ReadBounds ==
  /\ pc = "first"
  /\ \/ /\ channel # <<>>
        /\ LET m == Head(channel) IN
             /\ start' = m.start
             /\ stop' = m.stop
             /\ progress' = [total |-> m.stop - m.start + 1, value |-> 0,
                             active |-> TRUE]
             /\ boundsRead' = Append(boundsRead, m.id)
        /\ channel' = Tail(channel)
        /\ pc' = "loop"
        /\ UNCHANGED failedAt
     \/ /\ channel = <<>>
        /\ streamState \in {"closed", "error"}
        /\ Fail("STREAM_BLOCKS")
        /\ UNCHANGED <<start, stop, progress, boundsRead, channel>>
  /\ UNCHANGED <<zipCall, bucket, exportDir, fsVars, streamState, nSent, opens, result,
                 processed, delivered, stopSeen, written, digestVars, procs,
                 remote>>

\* Lines 83-86: the loop takes the next message; a record with a buffer and
\* a sequence goes to writeFile, any other is passed over.
LoopNext ==
  /\ pc = "loop"
  /\ channel # <<>>
  /\ LET m == Head(channel) IN
       /\ processed' = Append(processed, m.id)
       /\ delivered' = IF NonEmptyRecord(m) THEN delivered \cup {m.seq}
                       ELSE delivered
       /\ stopSeen' = (stopSeen \/ m.seq = stop)
       /\ IF ShouldWrite(m)
            THEN /\ result' = m
                 /\ pc' = "write"
            ELSE /\ UNCHANGED result
                 /\ pc' = "loop"
  /\ channel' = Tail(channel)
  /\ UNCHANGED <<zipCall, failedAt, bucket, exportDir, fsVars, streamState, nSent, opens,
                 start, stop, progress, boundsRead, written, digestVars, procs,
                 remote>>

\* What a writeFile(path, data) that rejects after opening its file holds
\* in it: the file was created or truncated, and the part of data written
\* before the error (possibly none) follows.
PartWritten(data) ==
  {<<>>} \cup {SubSeq(data, 1, k) : k \in 0 .. Len(data) - 1}

\* What a writeFile(path, data) that rejects may leave of a block file that
\* held old (Undefined: no file): old, when the file could not be opened,
\* or a file with part of data.
FailedWrite(old, data) == {old} \cup PartWritten(data)

\* What a write with the append flag would leave.
AppendFile(old, data) == IF old = Undefined THEN data ELSE old \o data

\* What writeFile(path, data) leaves in a file that held old (line 86: no
\* flag is given, so the file is created or truncated, then written).
WriteFile(old, data) == data

\* Lines 86-87 with progress.update called before the write is awaited: the
\* bar moves whether or not the write completes.
WriteBlockProgressFirst ==
  /\ pc = "write"
  /\ progress' = [progress EXCEPT !.value = result.seq]
  /\ \/ /\ blocks' = [blocks EXCEPT
                      ![result.seq] = WriteFile(blocks[result.seq], result.buffer)]
        /\ written' = [written EXCEPT !.payload[result.seq] = result.buffer,
                                      !.last = result.seq]
        /\ pc' = "loop"
        /\ UNCHANGED failedAt
     \/ /\ \E left \in FailedWrite(blocks[result.seq], result.buffer) :
             blocks' = [blocks EXCEPT ![result.seq] = left]
        /\ Fail("STREAM_BLOCKS")
        /\ UNCHANGED written
  /\ UNCHANGED <<zipCall, bucket, exportDir, blocksDir, archive, manifest,
                 streamVars, opens, start, stop, result, boundsRead, processed,
                 delivered, stopSeen, digestVars, procs, remote>>

\* Lines 86-87: writeFile replaces the file's content, then progress.update;
\* a failed write rejects, and may have truncated the file it opened and
\* written part of the payload.
WriteBlock ==
  /\ pc = "write"
  /\ \/ /\ blocks' = [blocks EXCEPT
                      ![result.seq] = WriteFile(blocks[result.seq], result.buffer)]
        /\ written' = [written EXCEPT !.payload[result.seq] = result.buffer,
                                      !.last = result.seq]
        /\ progress' = [progress EXCEPT !.value = result.seq]
        /\ pc' = "loop"
        /\ UNCHANGED failedAt
     \/ /\ \E left \in FailedWrite(blocks[result.seq], result.buffer) :
             blocks' = [blocks EXCEPT ![result.seq] = left]
        /\ Fail("STREAM_BLOCKS")
        /\ UNCHANGED <<progress, written>>
  /\ UNCHANGED <<zipCall, bucket, exportDir, blocksDir, archive, manifest, streamVars,
                 opens, start, stop, result, boundsRead, processed, delivered,
                 stopSeen, digestVars, procs, remote>>

\* Line 83: the stream threw after its last message.
LoopThrow ==
  /\ pc = "loop"
  /\ channel = <<>>
  /\ streamState = "error"
  /\ Fail("STREAM_BLOCKS")
  /\ UNCHANGED <<zipCall, bucket, exportDir, fsVars, streamVars, opens, readVars,
                 digestVars, procs, remote>>

\* Lines 83, 91-100 and 144-156: the stream is done; progress.stop, the
\* timestamp is taken and zipDir spawns tar.
LoopEnd ==
  /\ pc = "loop"
  /\ channel = <<>>
  /\ streamState = "closed"
  /\ progress' = [progress EXCEPT !.active = FALSE]
  /\ \E now \in Times :
       /\ timestamp' = now
       /\ procs' = Append(procs,
            Spawn("tar",
                  ZipArgs(blockExportPath,
                          Join(exportDir, SnapshotFileName(now)), <<>>),
                  Join(exportDir, SnapshotFileName(now))))
  /\ pc' = "zip"
  /\ UNCHANGED <<zipCall, failedAt, bucket, exportDir, fsVars, streamVars, opens, start,
                 stop, result, boundsRead, processed, delivered, stopSeen,
                 written,
                 fileSize, hasher, hashPos, checksum, remote>>

(***************************************************************************)
(* start(): archive and digest (lines 100-114); zipDir (lines 144-161).    *)
(***************************************************************************)
\* The child process last spawned, and procs with it changed to p.
LastProc == procs[Len(procs)]
SetLastProc(p) == [procs EXCEPT ![Len(procs)] = p]

\* What tar leaves at the destination when it ends with code.
TarLeaves(code) ==
  IF code = 0 THEN {File(d) : d \in ArchiveBytes}
  ELSE {NoFile} \cup {File(d) : d \in ArchiveBytes \cup {<<>>}}

\* Line 157 with one retry: after a nonzero exit of the first tar, tar is
\* spawned again with the same arguments.
ZipExitRetrying ==
  /\ pc = "zip"
  /\ LastProc.state = "running"
  /\ \E code \in ExitCodes :
       /\ \E left \in TarLeaves(code) : archive' = left
       /\ IF code # 0 /\ Len(procs) = 1
            THEN /\ procs' = Append(
                      SetLastProc([LastProc EXCEPT !.state = "exited",
                                                   !.code = code]),
                      Spawn("tar", LastProc.args, LastProc.file))
                 /\ UNCHANGED pc
            ELSE /\ procs' = SetLastProc([LastProc EXCEPT !.state = "exited",
                                                          !.code = code])
                 /\ pc' = "stat"
  /\ UNCHANGED <<zipCall, failedAt, bucket, exportDir, blocksDir, blocks, manifest,
                 streamVars, opens, readVars, digestVars, remote>>

\* Line 157: tar's 'exit' event resolves zipDir's promise with the code,
\* whatever the code is (the later 'close' event finds it settled); start()
\* goes on to fsAsync.stat.
ZipExit ==
  /\ pc = "zip"
  /\ LastProc.state = "running"
  /\ \E code \in ExitCodes :
       /\ procs' = SetLastProc([LastProc EXCEPT !.state = "exited", !.code = code])
       /\ \E left \in TarLeaves(code) : archive' = left
  /\ pc' = "stat"
  /\ UNCHANGED <<zipCall, failedAt, bucket, exportDir, blocksDir, blocks, manifest,
                 streamVars, opens, readVars, digestVars, remote>>

\* zipDir without the 'error' listener of line 159: tar could not be
\* spawned and the promise is never settled.
ZipErrorUnhandled ==
  /\ pc = "zip"
  /\ LastProc.state = "running"
  /\ procs' = SetLastProc([LastProc EXCEPT !.state = "error"])
  /\ UNCHANGED <<zipCall, pc, failedAt, bucket, exportDir, fsVars, streamVars,
                 opens, readVars, digestVars, remote>>

\* Line 159 followed by a cleanup: on the failure the blocks directory is
\* removed with everything in it.
ZipErrorCleansUp ==
  /\ pc = "zip"
  /\ LastProc.state = "running"
  /\ procs' = SetLastProc([LastProc EXCEPT !.state = "error"])
  /\ Fail("ARCHIVE")
  /\ blocksDir' = FALSE
  /\ blocks' = NoBlocks
  /\ UNCHANGED <<zipCall, bucket, exportDir, archive, manifest, streamVars, opens,
                 readVars, digestVars, remote>>

\* Line 159: tar could not be spawned; the 'error' event rejects the promise.
ZipError ==
  /\ pc = "zip"
  /\ LastProc.state = "running"
  /\ procs' = SetLastProc([LastProc EXCEPT !.state = "error"])
  /\ Fail("ARCHIVE")
  /\ UNCHANGED <<zipCall, bucket, exportDir, fsVars, streamVars, opens, readVars,
                 digestVars, remote>>

\* Lines 101-106: stat gives the archive's size, or rejects (no such file,
\* or an I/O error); after it the hash is created and fsAsync.open awaited.
Stat ==
  /\ pc = "stat"
  /\ \/ /\ archive.exists
        /\ fileSize' = Len(archive.data)
        /\ hasher' = HashInit
        /\ pc' = "open"
        /\ UNCHANGED failedAt
     \/ /\ Fail("DIGEST")
        /\ UNCHANGED <<fileSize, hasher>>
  /\ UNCHANGED <<zipCall, bucket, exportDir, fsVars, streamVars, opens, readVars,
                 timestamp, hashPos, checksum, procs, remote>>

\* Lines 106-109: the archive is opened for reading, or open rejects.
Open ==
  /\ pc = "open"
  /\ \/ /\ archive.exists
        /\ hashPos' = 0
        /\ pc' = "hash"
        /\ UNCHANGED failedAt
     \/ /\ Fail("DIGEST")
        /\ UNCHANGED hashPos
  /\ UNCHANGED <<zipCall, bucket, exportDir, fsVars, streamVars, opens, readVars,
                 timestamp, fileSize, hasher, checksum, procs, remote>>

\* Lines 110-112: the read stream delivers the next chunk, of any size, and
\* the hash is updated with it; a read error rejects.
HashChunk ==
  /\ pc = "hash"
  /\ \/ /\ hashPos < Len(archive.data)
        /\ \E n \in 1 .. (Len(archive.data) - hashPos) :
             /\ hasher' = HashUpdate(hasher,
                                     SubSeq(archive.data, hashPos + 1, hashPos + n))
             /\ hashPos' = hashPos + n
        /\ UNCHANGED <<pc, failedAt>>
     \/ /\ hashPos < Len(archive.data)
        /\ Fail("DIGEST")
        /\ UNCHANGED <<hasher, hashPos>>
  /\ UNCHANGED <<zipCall, bucket, exportDir, fsVars, streamVars, opens, readVars,
                 timestamp, fileSize, checksum, procs, remote>>

(***************************************************************************)
(* start(): publishing (lines 113-141); uploadToBucket (lines 163-193).    *)
(***************************************************************************)
\* Lines 113-120 and 163-187: the read stream has ended; the digest is
\* taken.  With a bucket, uploadToBucket spawns curl for the archive;
\* without one start() returns.
HashEnd ==
  /\ pc = "hash"
  /\ hashPos = Len(archive.data)
  /\ checksum' = Hex(hasher)
  /\ IF TruthyStr(bucket)
       THEN /\ procs' = Append(procs,
                 Spawn("curl",
                       UploadArgs(snapshotPath, bucket, "application/x-compressed-tar"),
                       snapshotPath))
            /\ pc' = "upload_archive"
       ELSE /\ UNCHANGED procs
            /\ pc' = "done"
  /\ UNCHANGED <<zipCall, failedAt, bucket, exportDir, fsVars, streamVars, opens,
                 readVars, timestamp, fileSize, hasher, hashPos, remote>>

\* What the bucket holds after curl ended with code for a file named base.
Received(code, base) == IF code = 0 THEN remote \cup {base} ELSE remote

\* Line 120 without the await: start() goes on to write the manifest while
\* the curl of the archive is still running.
UploadArchiveNotAwaited ==
  /\ pc = "upload_archive"
  /\ LastProc.state = "running"
  /\ pc' = "write_manifest"
  /\ UNCHANGED <<zipCall, failedAt, bucket, exportDir, fsVars, streamVars, opens,
                 readVars, digestVars, procs, remote>>

\* Line 190 under line 120: curl's 'exit' event resolves the promise with
\* the code, whatever it is; start() goes on to write the manifest.
UploadArchiveExit ==
  /\ pc = "upload_archive"
  /\ LastProc.state = "running"
  /\ \E code \in ExitCodes :
       /\ procs' = SetLastProc([LastProc EXCEPT !.state = "exited", !.code = code])
       /\ remote' = Received(code, Basename(LastProc.file))
  /\ pc' = "write_manifest"
  /\ UNCHANGED <<zipCall, failedAt, bucket, exportDir, fsVars, streamVars, opens,
                 readVars, digestVars>>

\* Line 191 under line 120: curl could not be spawned.
UploadArchiveError ==
  /\ pc = "upload_archive"
  /\ LastProc.state = "running"
  /\ procs' = SetLastProc([LastProc EXCEPT !.state = "error"])
  /\ Fail("UPLOAD_ARCHIVE")
  /\ UNCHANGED <<zipCall, bucket, exportDir, fsVars, streamVars, opens, readVars,
                 digestVars, remote>>

\* The manifest with block_height taken from the lower bound.
ManifestOfStart ==
  ManifestJson(start, checksum, snapshotFileName, fileSize, timestamp)

\* The manifest of lines 128-134.
Manifest == ManifestJson(stop, checksum, snapshotFileName, fileSize, timestamp)

\* Lines 123-138: manifest.json is written, then uploadToBucket spawns curl
\* for it; a failed write rejects: the file could not be opened and is as
\* it was (absent, if it was), or it was created or truncated and holds
\* part of the text, possibly none.
WriteManifest ==
  /\ pc = "write_manifest"
  /\ \/ /\ manifest' = File(Manifest)
        /\ written' = [written EXCEPT !.manifest = TRUE]
        /\ procs' = Append(procs,
             Spawn("curl", UploadArgs(manifestPath, bucket, "application/json"),
                   manifestPath))
        /\ pc' = "upload_manifest"
        /\ UNCHANGED failedAt
     \/ /\ \/ UNCHANGED manifest
           \/ \E part \in PartWritten(Manifest) : manifest' = File(part)
        /\ Fail("WRITE_MANIFEST")
        /\ UNCHANGED <<written, procs>>
  /\ UNCHANGED <<zipCall, bucket, exportDir, blocksDir, blocks, archive, streamVars,
                 opens, start, stop, progress, result, boundsRead, processed,
                 delivered, stopSeen, digestVars, remote>>

\* Line 190 under line 138: curl's 'exit' event resolves the promise with
\* the code, whatever it is; start() returns.
UploadManifestExit ==
  /\ pc = "upload_manifest"
  /\ LastProc.state = "running"
  /\ \E code \in ExitCodes :
       /\ procs' = SetLastProc([LastProc EXCEPT !.state = "exited", !.code = code])
       /\ remote' = Received(code, Basename(LastProc.file))
  /\ pc' = "done"
  /\ UNCHANGED <<zipCall, failedAt, bucket, exportDir, fsVars, streamVars, opens,
                 readVars, digestVars>>

\* Line 191 under line 138: curl could not be spawned.
UploadManifestError ==
  /\ pc = "upload_manifest"
  /\ LastProc.state = "running"
  /\ procs' = SetLastProc([LastProc EXCEPT !.state = "error"])
  /\ Fail("UPLOAD_MANIFEST")
  /\ UNCHANGED <<zipCall, bucket, exportDir, fsVars, streamVars, opens, readVars,
                 digestVars, remote>>

Next ==
  \/ ParseFlags
  \/ Mkdtemp
  \/ Mkdir
  \/ ConnectRpc
  \/ SourceEmit
  \/ SourceClose
  \/ SourceError
  \/ ReadBounds
  \/ LoopNext
  \/ WriteBlock
  \/ LoopThrow
  \/ LoopEnd
  \/ ZipExit
  \/ ZipError
  \/ Stat
  \/ Open
  \/ HashChunk
  \/ HashEnd
  \/ UploadArchiveExit
  \/ UploadArchiveError
  \/ WriteManifest
  \/ UploadManifestExit
  \/ UploadManifestError

Spec == Init /\ [][Next]_vars

(***************************************************************************)
(* Fairness.  Every await of start() on the file system or the RPC client  *)
(* settles; the stream the node serves ends or fails; every child that     *)
(* was spawned emits 'exit', and one that could not be emits 'error'.      *)
(***************************************************************************)
StartStep ==
  \/ ParseFlags \/ Mkdtemp \/ Mkdir \/ ConnectRpc \/ ReadBounds \/ LoopNext
  \/ WriteBlock \/ LoopThrow \/ LoopEnd \/ Stat \/ Open \/ HashChunk \/ HashEnd
  \/ WriteManifest
StreamEnds == SourceClose \/ SourceError
ChildSettles ==
  \/ ZipExit \/ ZipError
  \/ UploadArchiveExit \/ UploadArchiveError
  \/ UploadManifestExit \/ UploadManifestError

Fairness ==
  /\ WF_vars(StartStep)
  /\ WF_vars(StreamEnds)
  /\ WF_vars(ChildSettles)

FairSpec == Spec /\ Fairness

(***************************************************************************)
(* zipDir on its own (lines 144-156): the argument list it gives to tar,   *)
(* for any source, destination and list of exclude patterns.  start()      *)
(* calls it with no excludes; excludes is a parameter of the method.       *)
(***************************************************************************)
\* Longest list of exclude patterns a call is given.
MaxExcludes == 2
\* Exclude patterns, and the lists of them.
Patterns == {"*.tmp", "lock"}
ExcludeLists == UNION {[1 .. k -> Patterns] : k \in 0 .. MaxExcludes}
ZipSources ==
  {Join(d, b) : d \in {Resolve(<<"out">>), TmpDir}, b \in {<<"blocks">>, <<"data">>}}
ZipDests ==
  {Join(d, SnapshotFileName(t)) : d \in {Resolve(<<"out">>), TmpDir}, t \in Times}

ZipInit ==
  /\ StartInit
  /\ \E s \in ZipSources, d \in ZipDests, e \in ExcludeLists :
       zipCall = [source |-> s, dest |-> d, excludes |-> e, args |-> <<>>]

\* Lines 145-156: the argument list is built and handed to spawn.
ZipDir ==
  /\ zipCall.args = <<>>
  /\ zipCall' = [zipCall EXCEPT
                   !.args = ZipArgs(zipCall.source, zipCall.dest, zipCall.excludes)]
  /\ UNCHANGED startVars

ZipNext == ZipDir

ZipSpec == ZipInit /\ [][ZipNext]_vars

(***************************************************************************)
(* Vocabulary of the properties.                                           *)
(***************************************************************************)
IsTar(p) == p.cmd = "tar"
IsCurl(p) == p.cmd = "curl"
\* The tar and the curl processes spawned so far, in order.
Zips == SelectSeq(procs, IsTar)
Uploads == SelectSeq(procs, IsCurl)
\* A child that could not be spawned, or ended with a nonzero code.
ProcFailed(p) == p.state = "error" \/ (p.state = "exited" /\ p.code # 0)
ProcSucceeded(p) == p.state = "exited" /\ p.code = 0

ZipInvoked == Zips # <<>>
ArchiveUploadInvoked == Len(Uploads) >= 1
ManifestUploadInvoked == Len(Uploads) >= 2
\* A hash object exists: the digest computation has begun.
DigestStarted == hasher # NoHash
\* The files of the blocks directory.
BlockFiles == {n \in FileNames : blocks[n] # Undefined}
\* The write of manifest.json on line 126 has completed.
ManifestWritten == written.manifest
\* p is the start of d, and not all of it.
IsProperPrefix(p, d) == Len(p) < Len(d) /\ p = SubSeq(d, 1, Len(p))
\* What a file holds after a failed write of d to it, when it held old: what
\* it held, or nothing, or the first part of d.
LeftByFailedWrite(new, old, d) ==
  new = old \/ new = <<>> \/ IsProperPrefix(new, d)

(***************************************************************************)
(* C1.  If the archive upload fails (curl ends with a nonzero code or      *)
(* cannot be spawned), no manifest.json is written, no manifest upload is  *)
(* invoked, and start() does not complete successfully.                    *)
(* The code resolves uploadToBucket's promise with any exit code and       *)
(* start() never looks at it: the statement is violated.                   *)
(***************************************************************************)
C1_ArchiveUploadFailureStopsJob ==
  (ArchiveUploadInvoked /\ ProcFailed(Uploads[1])) =>
    /\ ~ManifestWritten
    /\ ~ManifestUploadInvoked
    /\ pc # "done"

(***************************************************************************)
(* C2.  If the stream ends before a record with sequence stop has been     *)
(* taken, or a block file write fails, the job fails at once: tar is never *)
(* spawned and no later step runs.                                         *)
(* The loop of line 83 ends when the stream ends, whatever it has seen:    *)
(* the statement is violated.                                              *)
(***************************************************************************)
C2_IncompleteStreamNeverArchived ==
  /\ ZipInvoked => stopSeen
  /\ failedAt = "STREAM_BLOCKS" =>
       /\ procs = <<>>
       /\ ~DigestStarted
       /\ ~ManifestWritten

(***************************************************************************)
(* C3.  If tar ends with a nonzero code or cannot be spawned, the job      *)
(* fails: no digest is computed, nothing is uploaded, no manifest is       *)
(* written, and start() does not complete successfully.                    *)
(* zipDir resolves with any exit code and start() never looks at it: the   *)
(* statement is violated.                                                  *)
(***************************************************************************)
C3_ArchiverFailureStopsJob ==
  (ZipInvoked /\ ProcFailed(Zips[1])) =>
    /\ ~DigestStarted
    /\ ~ArchiveUploadInvoked
    /\ ~ManifestWritten
    /\ pc # "done"

(***************************************************************************)
(* C4.  After a successful run the files of the blocks directory are       *)
(* exactly the sequence numbers of the delivered records with a nonzero    *)
(* sequence and a non-empty payload, and every file name lies within       *)
(* [start, stop].                                                          *)
(* The loop writes every record with a buffer and a nonzero sequence and   *)
(* never compares the sequence with the bounds: the statement is violated. *)
(***************************************************************************)
C4_FilesAreDeliveredRecordsInBounds ==
  pc = "done" =>
    /\ BlockFiles = delivered
    /\ \A n \in BlockFiles : start <= n /\ n <= stop

(***************************************************************************)
(* C5.  A manifest that has been written describes the archive of the same *)
(* job: block_height is stop, file_size is the byte length of the archive  *)
(* file, checksum is the hex digest of the archive file's bytes, file_name *)
(* is the base name ironfish_snapshot_<t>.tar.gz of the path tar wrote to, *)
(* and timestamp is that same t.                                           *)
(***************************************************************************)
C5_ManifestDescribesArchive ==
  ManifestWritten =>
    LET m == manifest.data
        t == JsonGet(m, "timestamp")
    IN  /\ manifest.exists
        /\ JsonGet(m, "block_height") = stop
        /\ archive.exists
        /\ JsonGet(m, "file_size") = Len(archive.data)
        /\ JsonGet(m, "checksum") = Hex(Sha256(archive.data))
        /\ JsonGet(m, "file_name") = Basename(Zips[1].file)
        /\ JsonGet(m, "file_name") = <<"ironfish_snapshot_", NumStr(t), ".tar.gz">>
        /\ t = timestamp
        /\ t \in Times

\* A manifest exists for a two-byte archive of a stream whose bounds differ.
C5_Witness ==
  /\ ManifestWritten
  /\ manifest.exists
  /\ Len(archive.data) = 2
  /\ start # stop

(***************************************************************************)
(* C6.  If the bucket is empty after trimming, no upload process is ever   *)
(* spawned and no manifest file is created, and start() completes          *)
(* successfully as soon as the digest has been computed.                   *)
(***************************************************************************)
C6_NoBucketNoPublish ==
  Trim(bucket) = <<>> =>
    /\ Uploads = <<>>
    /\ remote = {}
    /\ ~ManifestWritten
    /\ manifest \in EarlierManifests
    /\ checksum # <<>> => pc = "done"
    /\ pc = "failed" =>
         failedAt \in {"PREPARE_DIR", "CONNECT", "STREAM_BLOCKS", "ARCHIVE", "DIGEST"}

\* A job without a bucket has completed after writing a block.
C6_Witness ==
  /\ pc = "done"
  /\ bucket = <<>>
  /\ checksum # <<>>
  /\ BlockFiles # {}

(***************************************************************************)
(* C7.  The stages occur in the order PREPARE_DIR, STREAM_BLOCKS, ARCHIVE, *)
(* DIGEST and, only with a bucket, UPLOAD_ARCHIVE, WRITE_MANIFEST,         *)
(* UPLOAD_MANIFEST: tar is spawned only after the last block write has     *)
(* completed, hashing starts only after tar has ended, no upload starts    *)
(* before the digest is complete, and the manifest upload is attempted     *)
(* only after the archive upload has completed successfully and the        *)
(* manifest has been written.                                              *)
(* The order holds, but the manifest upload also follows an archive upload *)
(* that ended with a nonzero code (see C1): the statement is violated.     *)
(***************************************************************************)
C7_StageOrder ==
  /\ ZipInvoked =>
       /\ blocksDir
       /\ pc \notin {"parse", "mkdtemp", "mkdir", "connect", "first", "loop", "write"}
       /\ ~progress.active
       /\ channel = <<>>
  /\ DigestStarted => (ZipInvoked /\ Zips[1].state = "exited")
  /\ ArchiveUploadInvoked => (checksum # <<>> /\ TruthyStr(bucket))
  /\ ManifestWritten => (ArchiveUploadInvoked /\ Uploads[1].state = "exited")
  /\ ManifestUploadInvoked => (ProcSucceeded(Uploads[1]) /\ ManifestWritten)
  /\ pc = "done" => checksum # <<>>

(***************************************************************************)
(* C8.  If the archive upload succeeds and the manifest upload then fails  *)
(* (a nonzero code or a spawn error), start() does not complete            *)
(* successfully.                                                           *)
(* A nonzero code of the second curl resolves the promise like a zero one: *)
(* the statement is violated.                                              *)
(***************************************************************************)
C8_ManifestUploadFailureFailsJob ==
  (/\ ManifestUploadInvoked
   /\ ProcSucceeded(Uploads[1])
   /\ ProcFailed(Uploads[2])) => pc # "done"

(***************************************************************************)
(* C9.  One stream request is made; AsyncUtils.first takes exactly the     *)
(* bounds message; every message the node sends after it is taken by the   *)
(* loop exactly once, in order: at any time the messages taken by first(), *)
(* those taken by the loop and those still on the channel are the messages *)
(* sent, and when the loop has ended normally the loop has taken them all. *)
(***************************************************************************)
ChannelIds == [i \in 1 .. Len(channel) |-> channel[i].id]

C9_OneStreamEachMessageOnce ==
  /\ opens <= 1
  /\ boundsRead \o processed \o ChannelIds = [i \in 1 .. nSent |-> i]
  /\ pc \notin {"parse", "mkdtemp", "mkdir", "connect", "first", "failed"}
       => boundsRead = <<1>>
  /\ ZipInvoked => processed = [i \in 1 .. nSent - 1 |-> i + 1]

\* The loop has ended normally after taking two data messages and writing
\* a block.
C9_Witness ==
  /\ pc = "zip"
  /\ boundsRead = <<1>>
  /\ processed = <<2, 3>>
  /\ BlockFiles # {}

(***************************************************************************)
(* C10.  A delivered record with sequence 0 or none, or with an empty      *)
(* payload or none, is passed over: no file is written for it and the      *)
(* progress value is not updated for it.  So every completed write is of a *)
(* record with a nonzero sequence and a non-empty payload.                 *)
(* A buffer of no bytes is an object and passes the test of line 84: the   *)
(* statement is violated.                                                  *)
(***************************************************************************)
C10_SkippedRecordsWriteNothing ==
  [][(pc = "write" /\ pc' = "loop") => NonEmptyRecord(result)]_vars

(***************************************************************************)
(* C11.  When streaming begins (the stream request has been made and no    *)
(* message has been read yet) the blocks directory exists and holds no     *)
(* file, whether the working directory was supplied by the caller or       *)
(* created by mkdtemp.                                                     *)
(***************************************************************************)
C11_BlocksDirEmptyAtStreamStart ==
  pc = "first" => (blocksDir /\ BlockFiles = {})

(***************************************************************************)
(* C12.  With no path supplied, a failure of mkdtemp ends the job before   *)
(* any network activity: as long as there is no working directory the job  *)
(* is parsing, awaiting mkdtemp, or has failed in directory preparation,   *)
(* and no connection was attempted, no stream requested, no message sent,  *)
(* no blocks directory, archive or manifest exists, no process was spawned *)
(* and the bucket received nothing.                                        *)
(***************************************************************************)
\* connectRpc was called: it succeeded (the stream request follows it) or
\* its failure ended the job.
ConnectAttempted == opens > 0 \/ streamState # "idle" \/ failedAt = "CONNECT"

C12_NoWorkingDirNoNetwork ==
  exportDir = Undefined =>
    /\ pc \in {"parse", "mkdtemp", "failed"}
    /\ pc = "failed" => failedAt = "PREPARE_DIR"
    /\ ~ConnectAttempted
    /\ nSent = 0 /\ channel = <<>>
    /\ ~blocksDir /\ BlockFiles = {}
    /\ ~archive.exists /\ ~manifest.exists
    /\ procs = <<>> /\ remote = {}

\* mkdtemp has failed and the job has ended.
C12_Witness ==
  pc = "failed" /\ failedAt = "PREPARE_DIR" /\ exportDir = Undefined

(***************************************************************************)
(* C13.  Block writes are full overwrites keyed by sequence.               *)
(***************************************************************************)
\* The job ended in the streaming stage while the record for file n was the
\* loop's current record.
EndedAtRecord(n) ==
  pc = "failed" /\ failedAt = "STREAM_BLOCKS" /\ result.seq = n

\* File n holds exactly the payload of the last record written under n
\* (nothing appended, nothing kept from before); a file under which no
\* record was written is as the directory held it before the job.
HoldsLastWritten(n) ==
  IF written.payload[n] # Undefined
    THEN blocks[n] = written.payload[n]
    ELSE blocks[n] \in {e[n] : e \in EarlierBlocks}

\* C13 as stated: after any sequence of delivered records, the file named
\* by a sequence holds the payload of the last record written under it.
C13_WritesAreOverwritesBySequence ==
  \A n \in FileNames :
    written.payload[n] # Undefined => blocks[n] = written.payload[n]

\* C13, amended.  Every block file holds the payload of the last record
\* written under its sequence, and there is no other new file, unless a
\* later write to that file failed: that ends the job, and the file is
\* then empty or holds the first part of the payload of the failed write.
C13_OverwritesUnlessWriteFailed ==
  \A n \in FileNames :
    \/ HoldsLastWritten(n)
    \/ /\ EndedAtRecord(n)
       /\ blocks[n] = <<>> \/ IsProperPrefix(blocks[n], result.buffer)

\* Sequence 1 was written twice: a record with a non-empty payload was
\* taken, and the last write under 1 was of an empty payload.
C13_Witness ==
  /\ pc = "loop"
  /\ 1 \in delivered
  /\ written.payload[1] = <<>>
  /\ blocks[1] = <<>>

(***************************************************************************)
(* C14.  The progress bar is moved for a record only once the write of     *)
(* that record has completed, and to that record's sequence: at every      *)
(* point the value shown is the sequence of the last record whose write    *)
(* completed (0 before any), so a failed write leaves it where it was.     *)
(***************************************************************************)
C14_ProgressFollowsCompletedWrites == progress.value = written.last

\* The write of a record with sequence 2 failed after the write of a record
\* with sequence 1 had completed; the bar still shows 1.
C14_Witness ==
  /\ pc = "failed"
  /\ result.seq = 2
  /\ written.last = 1
  /\ written.payload[2] = Undefined
  /\ progress.value = 1

(***************************************************************************)
(* C15.  start() waits for each child process it spawns: at most one child *)
(* is running at any time, it is the one last spawned and start() is       *)
(* suspended at the await of that child, and no child is running once the  *)
(* job has ended, in success or in failure.                                *)
(***************************************************************************)
\* Positions in procs of the children that are running.
RunningProcs == {i \in 1 .. Len(procs) : procs[i].state = "running"}

\* The await a running child keeps start() suspended at.
AwaitOf(p) ==
  IF IsTar(p) THEN "zip"
  ELSE IF p.file = snapshotPath THEN "upload_archive"
  ELSE "upload_manifest"

C15_OneChildAtATimeNoneSurvives ==
  /\ Cardinality(RunningProcs) <= 1
  /\ \A i \in RunningProcs : i = Len(procs) /\ pc = AwaitOf(procs[i])
  /\ pc \in {"zip", "upload_archive", "upload_manifest"} =>
       RunningProcs = {Len(procs)}
  /\ pc \in {"done", "failed"} => RunningProcs = {}

\* The manifest's curl is running after tar and the archive's curl ended.
C15_Witness ==
  /\ pc = "upload_manifest"
  /\ Len(procs) = 3
  /\ procs[1].state = "exited"
  /\ procs[2].state = "exited"
  /\ procs[3].state = "running"

(***************************************************************************)
(* C16.  No step is retried: within one job the stream is requested at     *)
(* most once, tar is spawned at most once, curl is spawned at most once    *)
(* for the archive and at most once for the manifest, and the digest is    *)
(* computed at most once (a hash, once created, is only ever fed the next  *)
(* chunk, and a checksum, once taken, never changes).                      *)
(***************************************************************************)
IsArchiveUpload(p) == IsCurl(p) /\ p.file = snapshotPath
IsManifestUpload(p) == IsCurl(p) /\ p.file = manifestPath

EachStepAtMostOnce ==
  /\ opens <= 1
  /\ Len(Zips) <= 1
  /\ Len(SelectSeq(procs, IsArchiveUpload)) <= 1
  /\ Len(SelectSeq(procs, IsManifestUpload)) <= 1
  /\ Len(procs) <= 3

DigestNotRestarted ==
  /\ DigestStarted => (DigestStarted' /\ hashPos' >= hashPos)
  /\ checksum # <<>> => UNCHANGED <<hasher, hashPos, checksum>>

C16_NoStepRetried == [](EachStepAtMostOnce) /\ [][DigestNotRestarted]_vars

\* The job ended with tar and both curls having failed, each spawned once.
C16_Witness ==
  /\ pc = "done"
  /\ Len(procs) = 3
  /\ \A i \in 1 .. 3 : procs[i].state = "exited" /\ procs[i].code = 1
  /\ checksum # <<>>

(***************************************************************************)
(* C17.  A failure leaves the local artifacts as they are.                 *)
(***************************************************************************)
\* The step ends the job in failure.
FailingStep == pc # "failed" /\ pc' = "failed"

\* Every artifact that exists before the step exists after it.
NothingDeleted ==
  /\ blocksDir => blocksDir'
  /\ \A n \in FileNames : blocks[n] # Undefined => blocks'[n] # Undefined
  /\ archive.exists => archive'.exists
  /\ manifest.exists => manifest'.exists

\* An artifact that exists before the step has the same content after it:
\* the block files but for those named in except, the archive, the manifest.
BlocksKept(except) ==
  \A n \in FileNames \ except : blocks[n] # Undefined => blocks'[n] = blocks[n]
ArchiveKept == archive.exists => archive' = archive
ManifestKept == manifest.exists => manifest' = manifest

\* C17 as stated: when a step fails, every artifact created before it (the
\* blocks directory, the block files, the archive, the manifest) is left
\* in place with its content unchanged; nothing is deleted or truncated.
C17_FailureLeavesArtifactsUnchanged ==
  [][FailingStep =>
       (NothingDeleted /\ BlocksKept({}) /\ ArchiveKept /\ ManifestKept)]_vars

\* C17, amended.  When a step fails, every artifact created before it is
\* left in place, and its content is unchanged except for the one file
\* (block file or manifest) whose write failed, which is left unchanged,
\* empty, or holding the first part of what was being written; and no step
\* of the job, failing or not, deletes an artifact.
C17_FailureKeepsAllButTheFileBeingWritten ==
  [][/\ NothingDeleted
     /\ FailingStep =>
          CASE pc = "write" ->
                 /\ BlocksKept({result.seq})
                 /\ LeftByFailedWrite(blocks'[result.seq], blocks[result.seq],
                                      result.buffer)
                 /\ ArchiveKept /\ ManifestKept
            [] pc = "write_manifest" ->
                 /\ BlocksKept({}) /\ ArchiveKept
                 /\ \/ manifest' = manifest
                    \/ /\ manifest'.exists
                       /\ LeftByFailedWrite(manifest'.data, manifest.data, Manifest)
            [] OTHER ->
                 BlocksKept({}) /\ ArchiveKept /\ ManifestKept]_vars

\* The last step failed (the manifest's curl could not be spawned) and the
\* block file, the archive and the manifest are all in place.
C17_Witness ==
  /\ pc = "failed"
  /\ failedAt = "UPLOAD_MANIFEST"
  /\ blocksDir
  /\ blocks[1] = <<"A", "B">>
  /\ archive.exists
  /\ ManifestWritten
  /\ manifest.exists

(***************************************************************************)
(* C19.  Once the bounds are read, the value shown by the progress bar is  *)
(* between 0 and stop - start + 1 at every point, for every bounds pair,   *)
(* those with start > 1 included.                                          *)
(***************************************************************************)
C19_ProgressWithinTotal ==
  boundsRead # <<>> =>
    (0 <= progress.value /\ progress.value <= stop - start + 1)

(***************************************************************************)
(* C18.  The argument list zipDir(source, dest, excludes) gives to tar     *)
(* ends with "-zcf", dest, "-C", the parent directory of source and the    *)
(* base name of source, in that order, and before them holds one           *)
(* "--exclude" flag directly in front of each exclude pattern and nothing  *)
(* else.  (The patterns come out in the reverse of the order given.)       *)
(***************************************************************************)
C18_ZipArgsLayout ==
  zipCall.args # <<>> =>
    LET a == zipCall.args
        k == Len(zipCall.excludes)
        n == Len(zipCall.args)
    IN  /\ n = 2 * k + 5
        /\ \A i \in 1 .. k :
             /\ a[2 * i - 1] = "--exclude"
             /\ a[2 * i] = zipCall.excludes[k + 1 - i]
        /\ a[n - 4] = "-zcf"
        /\ a[n - 3] = zipCall.dest
        /\ a[n - 2] = "-C"
        /\ a[n - 1] = Dirname(zipCall.source)
        /\ a[n] = Basename(zipCall.source)

\* zipDir has built the list for a call with two different patterns.
C18_Witness ==
  /\ zipCall.args # <<>>
  /\ Len(zipCall.excludes) = 2
  /\ zipCall.excludes[1] # zipCall.excludes[2]

(***************************************************************************)
(* C20.  If the stream eventually ends or fails and every child process    *)
(* eventually emits 'exit' or 'error' (and the awaits on the file system   *)
(* and the RPC client settle), start() eventually ends: it returns, or it  *)
(* fails.                                                                  *)
(***************************************************************************)
Terminal == pc \in {"done", "failed"}

C20_StartTerminates == <>Terminal

\* start() returned after both uploads, having awaited three children.
C20_Witness ==
  /\ pc = "done"
  /\ Len(procs) = 3
  /\ streamState = "closed"

=============================================================================
